---- MODULE Spec2Model ----
(***************************************************************************)
(* ExternalTaskSensor (airflow/sensors/external_task.py): the sensor that  *)
(* waits for a DAG, or for tasks of a DAG, to reach an allowed state on a  *)
(* set of logical dates.  The model holds one sensor instance, the rows of *)
(* the external DAG in the metadata database (task instances, DAG runs,    *)
(* the DagModel row and the DAG file) and the record of the latest poke.   *)
(***************************************************************************)
EXTENDS Integers, Sequences, FiniteSets, TLC

VARIABLES
    sensor,     \* the ExternalTaskSensor instance (its attributes), or NoSensor
    ctor,       \* the call of __init__: the states it was given and what it raised
    db,         \* the session's view: DagModel row + file, task instances, dag runs
    last,       \* the poke that has just returned or raised, or NoPoke
    prev,       \* the poke before it, when nothing happened in between
    nChecks,    \* how many times _check_for_existence has been entered
    nPassed,    \* how many times _check_for_existence has returned normally
    call        \* a poke that runs step by step next to the writers, or NoCall

vars == <<sensor, ctor, db, last, prev, nChecks, nPassed, call>>

-----------------------------------------------------------------------------
(* Values *)

\* Optional values are kept comparable: an optional string is the string
\* None, an optional list is the list NoneList, an optional timedelta or
\* object is a sequence of length 0 or 1.
None == "None"              \* Python's None, where a string is expected
NoneList == <<"None">>      \* Python's None, where a list is expected
NoDelta == <<>>             \* Python's None, where a timedelta is expected
NoSensor == <<>>            \* __init__ has not returned an instance
NoPoke == <<>>              \* no poke has just completed
NoCall == <<>>              \* no poke is running step by step
NoRow == "NoRow"            \* no row for that key in the table
NoCount == <<>>             \* get_count was not called

ExternalDagId == "W"
TaskIds == {"A", "B"}       \* task ids that occur in the database and DAG file
Dates == {1, 2}             \* logical dates that have rows in the database
LogicalDates == {1, 2}        \* context['logical_date'] of the sensor's own run

SUCCESS == "success"
FAILED == "failed"
SKIPPED == "skipped"
RUNNING == "running"

\* airflow.utils.state.State.task_states / State.dag_states
task_states == {SUCCESS, FAILED, RUNNING, SKIPPED}
dag_states == {SUCCESS, FAILED, RUNNING}

\* States the writers of this model put into rows.
RowStates == {SUCCESS, FAILED}

\* How many times _check_for_existence may be entered in one behaviour.
MaxChecks == 3

\* How many writes to the rows may fall inside one call of poke.
MaxConcurrentWrites == 2

Range(s) == {s[i] : i \in DOMAIN s}

\* Python truthiness of an Optional[list] / Optional[timedelta] argument.
TruthyList(x) == x # NoneList /\ x # <<>>
TruthyDelta(x) == x # NoDelta /\ x[1] # 0

-----------------------------------------------------------------------------
(* ExternalTaskSensor.__init__ *)

InitRaise(kind) == [raised |-> kind, self |-> NoSensor]

\* A variant of the overlap test that only rejects identical sets.
DuplicateStatesIfEqual(allowed, failed) == Range(failed) = Range(allowed)

\* set(self.failed_states).intersection(set(self.allowed_states))
DuplicateStates(allowed, failed) == Range(failed) \cap Range(allowed) # {}

SensorInit(a) ==
    LET allowed == IF TruthyList(a.allowed_states) THEN a.allowed_states ELSE <<SUCCESS>>
        failed == IF TruthyList(a.failed_states) THEN a.failed_states ELSE <<>>
        total_states == Range(allowed) \cup Range(failed)
        ids == IF a.external_task_id # None THEN <<a.external_task_id>>
               ELSE a.external_task_ids
    IN  IF DuplicateStates(allowed, failed)
          THEN InitRaise("AirflowException: duplicate states")
        ELSE IF a.external_task_id # None /\ a.external_task_ids # NoneList
          THEN InitRaise("ValueError: both task_id and task_ids")
        ELSE IF TruthyList(ids) /\ ~(total_states \subseteq task_states)
          THEN InitRaise("ValueError: task states")
        ELSE IF TruthyList(ids) /\ Len(ids) > Cardinality(Range(ids))
          THEN InitRaise("ValueError: duplicate task_ids")
        ELSE IF ~TruthyList(ids) /\ ~(total_states \subseteq dag_states)
          THEN InitRaise("ValueError: dag states")
        ELSE IF a.execution_delta # NoDelta /\ a.execution_date_fn # None
          THEN InitRaise("ValueError: both delta and fn")
        ELSE [raised |-> None,
              self |-> <<[allowed_states |-> allowed,
                        failed_states |-> failed,
                        execution_delta |-> a.execution_delta,
                        execution_date_fn |-> a.execution_date_fn,
                        external_dag_id |-> a.external_dag_id,
                        external_task_id |-> a.external_task_id,
                        external_task_ids |-> ids,
                        check_existence |-> a.check_existence,
                        has_checked_existence |-> FALSE]>>]

-----------------------------------------------------------------------------
(* poke: the dates to look at *)

\* The user's execution_date_fn, called by _handle_execution_date_fn with the
\* logical date.  Three callables stand for what such a function can return:
\* a window of two dates, the same date twice, and no date at all.
DateFns == {"fn_window", "fn_twice", "fn_nothing"}

HandleExecutionDateFn(self, context) ==
    LET logical_date == context.logical_date
    IN  CASE self.execution_date_fn = "fn_window" ->
                [is_list |-> TRUE, value |-> <<logical_date - 1, logical_date>>]
          [] self.execution_date_fn = "fn_twice" ->
                [is_list |-> TRUE, value |-> <<logical_date, logical_date>>]
          [] OTHER ->
                [is_list |-> TRUE, value |-> <<>>]

\* A variant that adds execution_delta to the logical date.
ResolveDttmAddsDelta(self, context) ==
    IF TruthyDelta(self.execution_delta)
      THEN [is_list |-> FALSE,
            value |-> <<context.logical_date + self.execution_delta[1]>>]
    ELSE IF self.execution_date_fn # None
      THEN HandleExecutionDateFn(self, context)
    ELSE [is_list |-> FALSE, value |-> <<context.logical_date>>]

\* dttm of poke: a datetime, or whatever execution_date_fn returned.
ResolveDttm(self, context) ==
    IF TruthyDelta(self.execution_delta)
      THEN [is_list |-> FALSE,
            value |-> <<context.logical_date - self.execution_delta[1]>>]
    ELSE IF self.execution_date_fn # None
      THEN HandleExecutionDateFn(self, context)
    ELSE [is_list |-> FALSE, value |-> <<context.logical_date>>]

\* dttm_filter = dttm if isinstance(dttm, list) else [dttm]
\* (a datetime is kept as the one element of value, so both branches read value)
DttmFilter(dttm) == IF dttm.is_list THEN dttm.value ELSE <<dttm.value[1]>>

-----------------------------------------------------------------------------
(* _check_for_existence *)

CheckResult(raised, task, self) == [raised |-> raised, task |-> task, self |-> self]

\* A variant that reports the last configured task id the DAG file does not define.
FirstMissingTaskLast(ids, dag) ==
    IF \E i \in DOMAIN ids : ids[i] \notin dag.task_ids
      THEN ids[CHOOSE i \in DOMAIN ids :
                  /\ ids[i] \notin dag.task_ids
                  /\ \A j \in DOMAIN ids : j > i => ids[j] \in dag.task_ids]
      ELSE None

\* The first configured task id that the DAG file does not define, or None.
FirstMissingTask(ids, dag) ==
    IF \E i \in DOMAIN ids : ids[i] \notin dag.task_ids
      THEN ids[CHOOSE i \in DOMAIN ids :
                  /\ ids[i] \notin dag.task_ids
                  /\ \A j \in DOMAIN ids : j < i => ids[j] \in dag.task_ids]
      ELSE None

\* A variant that sets the flag on entry, before the tests.
CheckForExistenceLatchFirst(self, session) ==
    LET dag == session.dag
        marked == [self EXCEPT !.has_checked_existence = TRUE]
        missing == IF TruthyList(self.external_task_ids)
                     THEN FirstMissingTask(self.external_task_ids, dag) ELSE None
    IN  IF ~dag.registered THEN CheckResult("dag does not exist", None, marked)
        ELSE IF ~dag.fileloc_exists THEN CheckResult("dag was deleted", None, marked)
        ELSE IF missing # None THEN CheckResult("task does not exist", missing, marked)
        ELSE CheckResult(None, None, marked)

\* A variant that never sets the flag.
CheckForExistenceNoLatch(self, session) ==
    LET dag == session.dag
        missing == IF TruthyList(self.external_task_ids)
                     THEN FirstMissingTask(self.external_task_ids, dag) ELSE None
    IN  IF ~dag.registered THEN CheckResult("dag does not exist", None, self)
        ELSE IF ~dag.fileloc_exists THEN CheckResult("dag was deleted", None, self)
        ELSE IF missing # None THEN CheckResult("task does not exist", missing, self)
        ELSE CheckResult(None, None, self)

CheckForExistence(self, session) ==
    LET dag == session.dag
        missing == IF TruthyList(self.external_task_ids)
                     THEN FirstMissingTask(self.external_task_ids, dag) ELSE None
    IN  IF ~dag.registered THEN CheckResult("dag does not exist", None, self)
        ELSE IF ~dag.fileloc_exists THEN CheckResult("dag was deleted", None, self)
        ELSE IF missing # None THEN CheckResult("task does not exist", missing, self)
        ELSE CheckResult(None, None, [self EXCEPT !.has_checked_existence = TRUE])

\* A variant of the guard that forgets the flag.
NeedsExistenceCheckAlways(self) == self.check_existence

\* A variant of the guard that checks whether or not check_existence is set.
NeedsExistenceCheckWithoutOption(self) == ~self.has_checked_existence

\* if self.check_existence and not self._has_checked_existence
NeedsExistenceCheck(self) == self.check_existence /\ ~self.has_checked_existence

-----------------------------------------------------------------------------
(* get_count *)

\* A variant that leaves out the filter on execution_date.
TaskInstanceRowsAnyDate(self, dttm_filter, session, states) ==
    {k \in DOMAIN session.ti :
        /\ session.ti[k] # NoRow
        /\ k[1] \in Range(self.external_task_ids)
        /\ session.ti[k] \in Range(states)}

\* Rows of TaskInstance for the configured tasks, in one of the states, on one of the dates.
TaskInstanceRows(self, dttm_filter, session, states) ==
    {k \in DOMAIN session.ti :
        /\ session.ti[k] # NoRow
        /\ k[1] \in Range(self.external_task_ids)
        /\ session.ti[k] \in Range(states)
        /\ k[2] \in Range(dttm_filter)}

\* Rows of DagRun in one of the states, on one of the dates.
DagRunRows(self, dttm_filter, session, states) ==
    {d \in DOMAIN session.dr :
        /\ session.dr[d] # NoRow
        /\ session.dr[d] \in Range(states)
        /\ d \in Range(dttm_filter)}

\* A count is the fraction <<numerator, denominator>>: Python's / is true
\* division, so 3 rows of 2 tasks count 1.5.  issued tells whether a query
\* reached the database.
CountResult(num, den, issued) == [count |-> <<num, den>>, issued |-> issued]

\* A variant that returns the number of rows, not divided by the number of tasks.
GetCountNoDivide(self, dttm_filter, session, states) ==
    IF dttm_filter = <<>> THEN CountResult(0, 1, FALSE)
    ELSE IF TruthyList(self.external_task_ids)
      THEN CountResult(Cardinality(TaskInstanceRows(self, dttm_filter, session, states)),
                       1, TRUE)
    ELSE CountResult(Cardinality(DagRunRows(self, dttm_filter, session, states)), 1, TRUE)

\* A variant that matches the rows against each element of dttm_filter in turn,
\* so a date listed twice counts its rows twice.
GetCountPerTarget(self, dttm_filter, session, states) ==
    IF dttm_filter = <<>> THEN CountResult(0, 1, FALSE)
    ELSE IF TruthyList(self.external_task_ids)
      THEN CountResult(
             Cardinality({x \in (DOMAIN dttm_filter) \X (DOMAIN session.ti) :
                 x[2] \in TaskInstanceRows(self, <<dttm_filter[x[1]]>>, session, states)}),
             Len(self.external_task_ids), TRUE)
    ELSE CountResult(
             Cardinality({x \in (DOMAIN dttm_filter) \X (DOMAIN session.dr) :
                 x[2] \in DagRunRows(self, <<dttm_filter[x[1]]>>, session, states)}),
             1, TRUE)

GetCount(self, dttm_filter, session, states) ==
    IF dttm_filter = <<>> THEN CountResult(0, 1, FALSE)
    ELSE IF TruthyList(self.external_task_ids)
      THEN CountResult(Cardinality(TaskInstanceRows(self, dttm_filter, session, states)),
                       Len(self.external_task_ids), TRUE)
    ELSE CountResult(Cardinality(DagRunRows(self, dttm_filter, session, states)), 1, TRUE)

\* A variant that asks for more than len(dttm_filter).
CountEqualsExceeds(count, n) == count[1] > n * count[2]

\* count == len(dttm_filter), for a count <<numerator, denominator>>
CountEquals(count, n) == count[1] = n * count[2]

-----------------------------------------------------------------------------
(* poke *)

NotFoundErrors == {"dag does not exist", "dag was deleted", "task does not exist"}
DependencyFailedErrors == {"tasks failed", "dag failed"}

\* A variant that starts count_failed at zero.
CountFailedZero == <<0, 1>>

\* count_failed = -1
CountFailedUnset == <<0 - 1, 1>>

\* The two calls of get_count: the counts and the queries that reached the database.
Counting(self, dttm_filter, session) ==
    LET a == GetCount(self, dttm_filter, session, self.allowed_states)
        f == IF self.failed_states # <<>>
               THEN GetCount(self, dttm_filter, session, self.failed_states)
               ELSE CountResult(CountFailedUnset[1], CountFailedUnset[2], FALSE)
    IN  [count_allowed |-> a.count,
         count_failed |-> f.count,
         queries |-> (IF a.issued THEN <<"allowed_states">> ELSE <<>>)
                     \o (IF f.issued THEN <<"failed_states">> ELSE <<>>)]

NoCounting == [count_allowed |-> NoCount, count_failed |-> NoCount, queries |-> <<>>]

\* A variant of the verdict that is satisfied by any matching row.
PokeOutcomeAnyRow(self, count_allowed, count_failed, n) ==
    IF CountEquals(count_failed, n)
      THEN (IF TruthyList(self.external_task_ids) THEN "tasks failed" ELSE "dag failed")
    ELSE IF count_allowed[1] > 0 THEN "True"
    ELSE "False"

\* A variant of the verdict that treats an empty dttm_filter as not yet satisfied.
PokeOutcomeEmptyPending(self, count_allowed, count_failed, n) ==
    IF n = 0 THEN "False"
    ELSE IF CountEquals(count_failed, n)
      THEN (IF TruthyList(self.external_task_ids) THEN "tasks failed" ELSE "dag failed")
    ELSE IF CountEquals(count_allowed, n) THEN "True"
    ELSE "False"

\* A variant of the verdict that raises as soon as one row is in a failed state.
PokeOutcomeAnyFailed(self, count_allowed, count_failed, n) ==
    IF count_failed[1] > 0
      THEN (IF TruthyList(self.external_task_ids) THEN "tasks failed" ELSE "dag failed")
    ELSE IF CountEquals(count_allowed, n) THEN "True"
    ELSE "False"

\* if count_failed == len(dttm_filter): raise ...; return count_allowed == len(dttm_filter)
PokeOutcome(self, count_allowed, count_failed, n) ==
    IF CountEquals(count_failed, n)
      THEN (IF TruthyList(self.external_task_ids) THEN "tasks failed" ELSE "dag failed")
    ELSE IF CountEquals(count_allowed, n) THEN "True"
    ELSE "False"

\* What one call of poke leaves behind: the instance, the session, and how it ended.
PokeEnd(self, session, dttm_filter, outcome, task, checks, passed, c) ==
    [self |-> self, session |-> session, dttm_filter |-> dttm_filter,
     outcome |-> outcome, task |-> task, checks |-> checks, passed |-> passed,
     queries |-> c.queries, count_allowed |-> c.count_allowed,
     count_failed |-> c.count_failed]

\* A variant that counts before it checks existence.
PokeCountsFirst(self, context, session) ==
    LET dttm_filter == DttmFilter(ResolveDttm(self, context))
        c == Counting(self, dttm_filter, session)
        needs == NeedsExistenceCheck(self)
        chk == IF needs THEN CheckForExistence(self, session)
               ELSE CheckResult(None, None, self)
        checks == IF needs THEN 1 ELSE 0
    IN  IF chk.raised # None
          THEN PokeEnd(chk.self, session, dttm_filter, chk.raised, chk.task, checks, 0, c)
          ELSE PokeEnd(chk.self, session, dttm_filter,
                       PokeOutcome(chk.self, c.count_allowed, c.count_failed,
                                   Len(dttm_filter)),
                       None, checks, checks, c)

\* A variant that deletes the task instances and dag runs it found failed.
PokeClearsFailed(self, context, session) ==
    LET dttm_filter == DttmFilter(ResolveDttm(self, context))
        needs == NeedsExistenceCheck(self)
        chk == IF needs THEN CheckForExistence(self, session)
               ELSE CheckResult(None, None, self)
        checks == IF needs THEN 1 ELSE 0
        c == Counting(chk.self, dttm_filter, session)
        cleared == [session EXCEPT
            !.ti = [k \in DOMAIN session.ti |->
                      IF k \in TaskInstanceRows(self, dttm_filter, session, self.failed_states)
                        THEN NoRow ELSE session.ti[k]],
            !.dr = [d \in DOMAIN session.dr |->
                      IF d \in DagRunRows(self, dttm_filter, session, self.failed_states)
                        THEN NoRow ELSE session.dr[d]]]
    IN  IF chk.raised # None
          THEN PokeEnd(chk.self, session, dttm_filter, chk.raised, chk.task, checks, 0,
                       NoCounting)
          ELSE PokeEnd(chk.self, cleared, dttm_filter,
                       PokeOutcome(chk.self, c.count_allowed, c.count_failed,
                                   Len(dttm_filter)),
                       None, checks, checks, c)

Poke(self, context, session) ==
    LET dttm_filter == DttmFilter(ResolveDttm(self, context))
        needs == NeedsExistenceCheck(self)
        chk == IF needs THEN CheckForExistence(self, session)
               ELSE CheckResult(None, None, self)
        checks == IF needs THEN 1 ELSE 0
        c == Counting(chk.self, dttm_filter, session)
    IN  IF chk.raised # None
          THEN PokeEnd(chk.self, session, dttm_filter, chk.raised, chk.task, checks, 0,
                       NoCounting)
          ELSE PokeEnd(chk.self, session, dttm_filter,
                       PokeOutcome(chk.self, c.count_allowed, c.count_failed,
                                   Len(dttm_filter)),
                       None, checks, checks, c)

-----------------------------------------------------------------------------
(* The state machine *)

\* Arguments __init__ is called with.
InitArgs ==
    [external_dag_id : {ExternalDagId},
     external_task_id : {None, "A"},
     external_task_ids : {NoneList, <<"A", "B">>, <<"B", "B">>},
     allowed_states : {NoneList, <<SUCCESS, SKIPPED>>},
     failed_states : {NoneList, <<FAILED>>, <<SUCCESS>>},
     execution_delta : {NoDelta, <<0>>, <<1>>},
     execution_date_fn : {None} \cup DateFns,
     check_existence : BOOLEAN]

\* The DagModel row of the external DAG and the DAG file it points to.
Unregistered == [registered |-> FALSE, fileloc_exists |-> FALSE, task_ids |-> {}]
FullDag == [registered |-> TRUE, fileloc_exists |-> TRUE, task_ids |-> TaskIds]

EmptyTaskInstances == [k \in TaskIds \X Dates |-> NoRow]
EmptyDagRuns == [d \in Dates |-> NoRow]

NothingPoked ==
    /\ last = NoPoke
    /\ prev = NoPoke
    /\ nChecks = 0
    /\ nPassed = 0
    /\ call = NoCall

\* A database with no runs of the external DAG yet; the DAG is there or not.
Init ==
    /\ sensor = NoSensor
    /\ ctor = <<>>
    /\ db \in [dag : {Unregistered, FullDag},
               ti : {EmptyTaskInstances},
               dr : {EmptyDagRuns}]
    /\ NothingPoked

\* A database whose runs have all ended one way, or that has none; no DAG yet.
InitRegistry ==
    /\ sensor = NoSensor
    /\ ctor = <<>>
    /\ db \in {[dag |-> Unregistered,
                 ti |-> [k \in TaskIds \X Dates |-> s],
                 dr |-> [d \in Dates |-> s]] : s \in RowStates \cup {NoRow}}
    /\ NothingPoked

\* ExternalTaskSensor(**a): an instance, or an exception and no instance.
Construct ==
    \E a \in InitArgs :
        /\ ctor = <<>>
        /\ sensor' = SensorInit(a).self
        /\ ctor' = <<[allowed_states |-> a.allowed_states,
                      failed_states |-> a.failed_states,
                      raised |-> SensorInit(a).raised]>>
        /\ UNCHANGED <<db, last, prev, nChecks, nPassed, call>>

\* The host calls poke(context) on the instance; it returns or raises.
PokeWith(logical_date) ==
    /\ sensor # NoSensor
    /\ NeedsExistenceCheck(sensor[1]) => nChecks < MaxChecks
    /\ \E r \in {Poke(sensor[1], [logical_date |-> logical_date], db)} :
           /\ sensor' = <<r.self>>
           /\ db' = r.session
           /\ last' = <<[context |-> [logical_date |-> logical_date],
                         before |-> sensor[1],
                         after |-> r.self,
                         dttm_filter |-> r.dttm_filter,
                         outcome |-> r.outcome,
                         task |-> r.task,
                         checks |-> r.checks,
                         passed |-> r.passed,
                         queries |-> r.queries,
                         count_allowed |-> r.count_allowed,
                         count_failed |-> r.count_failed]>>
           /\ prev' = last
           /\ nChecks' = nChecks + r.checks
           /\ nPassed' = nPassed + r.passed
    /\ UNCHANGED <<ctor, call>>

PokeCall == \E logical_date \in LogicalDates : PokeWith(logical_date)

\* Which table get_count reads for this instance: "ti" or "dr".
TableRead(self) == IF TruthyList(self.external_task_ids) THEN "ti" ELSE "dr"

\* A worker of the external DAG writes, or a user clears, a task instance.
\* Writes to the table the instance never reads cannot change any poke and
\* are left out.
SetTaskInstanceState ==
    \E k \in TaskIds \X Dates, s \in RowStates \cup {NoRow} :
        /\ sensor # NoSensor
        /\ TableRead(sensor[1]) = "ti"
        /\ db.ti[k] # s
        /\ db' = [db EXCEPT !.ti[k] = s]
        /\ last' = NoPoke
        /\ prev' = NoPoke
        /\ UNCHANGED <<sensor, ctor, nChecks, nPassed, call>>

\* The scheduler writes, or a user clears, a dag run.
SetDagRunState ==
    \E d \in Dates, s \in RowStates \cup {NoRow} :
        /\ sensor # NoSensor
        /\ TableRead(sensor[1]) = "dr"
        /\ db.dr[d] # s
        /\ db' = [db EXCEPT !.dr[d] = s]
        /\ last' = NoPoke
        /\ prev' = NoPoke
        /\ UNCHANGED <<sensor, ctor, nChecks, nPassed, call>>

SetDag(dag) ==
    /\ db' = [db EXCEPT !.dag = dag]
    /\ last' = NoPoke
    /\ prev' = NoPoke
    /\ UNCHANGED <<sensor, ctor, nChecks, nPassed, call>>

\* The DAG file is parsed and the DagModel row written.
RegisterDag ==
    \E tasks \in SUBSET TaskIds :
        /\ ~db.dag.registered
        /\ SetDag([registered |-> TRUE, fileloc_exists |-> TRUE, task_ids |-> tasks])

\* The DagModel row is deleted.
UnregisterDag ==
    /\ db.dag.registered
    /\ SetDag(Unregistered)

\* The DAG file is removed from disk; the row stays.
DeleteDagFile ==
    /\ db.dag.registered
    /\ db.dag.fileloc_exists
    /\ SetDag([db.dag EXCEPT !.fileloc_exists = FALSE])

\* The DAG file is edited: a task is added or removed.
EditDagFile ==
    \E t \in TaskIds :
        /\ db.dag.registered
        /\ db.dag.fileloc_exists
        /\ SetDag([db.dag EXCEPT !.task_ids =
                      IF t \in @ THEN @ \ {t} ELSE @ \cup {t}])

Next ==
    \/ Construct
    \/ PokeCall
    \/ SetTaskInstanceState
    \/ SetDagRunState

Spec == Init /\ [][Next]_vars

NextRegistry ==
    \/ Construct
    \/ PokeCall
    \/ RegisterDag
    \/ UnregisterDag
    \/ DeleteDagFile
    \/ EditDagFile

SpecRegistry == InitRegistry /\ [][NextRegistry]_vars

\* The host's loop: the sensor is poked again and again with the context of
\* its task instance, as long as poke can be called.
LiveArgs ==
    [external_dag_id : {ExternalDagId},
     external_task_id : {None},
     external_task_ids : {NoneList, <<"A", "B">>},
     allowed_states : {NoneList},
     failed_states : {NoneList, <<FAILED>>},
     execution_delta : {NoDelta},
     execution_date_fn : {None, "fn_window"},
     check_existence : BOOLEAN]

\* The sensor is already built, watching two tasks or the DAG, one date or a window.
InitLive ==
    /\ \E a \in LiveArgs :
          /\ sensor = SensorInit(a).self
          /\ ctor = <<[allowed_states |-> a.allowed_states,
                       failed_states |-> a.failed_states,
                       raised |-> SensorInit(a).raised]>>
    /\ db \in [dag : {Unregistered, FullDag},
               ti : {EmptyTaskInstances},
               dr : {EmptyDagRuns}]
    /\ NothingPoked

\* The logical date of the task instance the sensor runs as: every poke of
\* that task instance gets the same context.
LiveLogicalDate == CHOOSE d \in LogicalDates : \A e \in LogicalDates : e <= d

PokeLive == PokeWith(LiveLogicalDate)

NextLive ==
    \/ PokeLive
    \/ SetTaskInstanceState
    \/ SetDagRunState

SpecLive == InitLive /\ [][NextLive]_vars /\ WF_vars(PokeLive)

-----------------------------------------------------------------------------
(* poke next to the writers: its two count queries are separate statements *)

\* A database whose runs have all ended one way, or that has none.
InitConcurrent ==
    /\ sensor = NoSensor
    /\ ctor = <<>>
    /\ db \in {[dag |-> d,
                 ti |-> [k \in TaskIds \X Dates |-> s],
                 dr |-> [d2 \in Dates |-> s]] :
                    d \in {Unregistered, FullDag}, s \in RowStates \cup {NoRow}}
    /\ NothingPoked

\* The call has been entered and has not yet returned or raised.
InFlight == call # NoCall /\ call[1].pc # "done"

\* poke, lines 150-169: the dates, and the existence check when it is due.
\* seen collects every state of the database from here to the end of the call.
PokeEnter ==
    \E logical_date \in LogicalDates :
        /\ sensor # NoSensor
        /\ call = NoCall
        /\ NeedsExistenceCheck(sensor[1]) => nChecks < MaxChecks
        /\ LET self == sensor[1]
               context == [logical_date |-> logical_date]
               needs == NeedsExistenceCheck(self)
               chk == IF needs THEN CheckForExistence(self, db)
                      ELSE CheckResult(None, None, self)
               checks == IF needs THEN 1 ELSE 0
           IN  /\ sensor' = <<chk.self>>
               /\ call' = <<[self |-> self,
                             context |-> context,
                             dttm_filter |-> DttmFilter(ResolveDttm(self, context)),
                             pc |-> IF chk.raised # None THEN "done" ELSE "count_allowed",
                             outcome |-> chk.raised,
                             count_allowed |-> NoCount,
                             count_failed |-> NoCount,
                             seen |-> {db},
                             writes |-> 0]>>
               /\ nChecks' = nChecks + checks
               /\ nPassed' = nPassed + (IF chk.raised = None THEN checks ELSE 0)
        /\ UNCHANGED <<ctor, db, last, prev>>

\* poke, line 171: count_allowed = self.get_count(dttm_filter, session, self.allowed_states)
PokeCountAllowed ==
    /\ call # NoCall
    /\ call[1].pc = "count_allowed"
    /\ call' = <<[call[1] EXCEPT
                    !.count_allowed = GetCount(sensor[1], call[1].dttm_filter, db,
                                               sensor[1].allowed_states).count,
                    !.pc = "count_failed"]>>
    /\ UNCHANGED <<sensor, ctor, db, last, prev, nChecks, nPassed>>

\* poke, lines 173-186: the count for failed_states, then the verdict.
PokeCountFailed ==
    /\ call # NoCall
    /\ call[1].pc = "count_failed"
    /\ \E f \in {IF sensor[1].failed_states # <<>>
                    THEN GetCount(sensor[1], call[1].dttm_filter, db,
                                  sensor[1].failed_states).count
                    ELSE CountFailedUnset} :
           call' = <<[call[1] EXCEPT
                        !.count_failed = f,
                        !.outcome = PokeOutcome(sensor[1], call[1].count_allowed, f,
                                                Len(call[1].dttm_filter)),
                        !.pc = "done"]>>
    /\ UNCHANGED <<sensor, ctor, db, last, prev, nChecks, nPassed>>

\* The call in flight after the database has become d.
Observed(c, d) == <<[c[1] EXCEPT !.seen = @ \cup {d}, !.writes = @ + 1]>>

\* A worker writes a task instance while poke is between two statements.
SetTaskInstanceStateDuringPoke ==
    \E k \in TaskIds \X Dates, s \in RowStates \cup {NoRow} :
        /\ InFlight
        /\ call[1].writes < MaxConcurrentWrites
        /\ TableRead(sensor[1]) = "ti"
        /\ db.ti[k] # s
        /\ db' = [db EXCEPT !.ti[k] = s]
        /\ call' = Observed(call, db')
        /\ UNCHANGED <<sensor, ctor, last, prev, nChecks, nPassed>>

\* The scheduler writes a dag run while poke is between two statements.
SetDagRunStateDuringPoke ==
    \E d \in Dates, s \in RowStates \cup {NoRow} :
        /\ InFlight
        /\ call[1].writes < MaxConcurrentWrites
        /\ TableRead(sensor[1]) = "dr"
        /\ db.dr[d] # s
        /\ db' = [db EXCEPT !.dr[d] = s]
        /\ call' = Observed(call, db')
        /\ UNCHANGED <<sensor, ctor, last, prev, nChecks, nPassed>>

NextConcurrent ==
    \/ Construct
    \/ PokeEnter
    \/ PokeCountAllowed
    \/ PokeCountFailed
    \/ SetTaskInstanceStateDuringPoke
    \/ SetDagRunStateDuringPoke

SpecConcurrent == InitConcurrent /\ [][NextConcurrent]_vars

-----------------------------------------------------------------------------
(* Properties *)

\* The poke that has just completed (meaningful when last # NoPoke).  No
\* action changes db between that poke and the state that holds its record.
P == last[1]
Distinct(seq) == Cardinality(Range(seq)) = Len(seq)
Targets == Range(P.dttm_filter)

\* The state of the row the sensor looks at for task t (or the dag run) on date d.
RowState(t, d) ==
    IF d \notin Dates THEN NoRow
    ELSE IF TableRead(P.after) = "ti" THEN db.ti[<<t, d>>] ELSE db.dr[d]

\* The tasks whose rows the sensor looks at; one placeholder when it waits for the DAG.
Watched == IF TableRead(P.after) = "ti" THEN Range(P.after.external_task_ids) ELSE {None}

EveryRowIn(states) ==
    \A t \in Watched, d \in Targets : RowState(t, d) \in Range(states)

\* C1: for a non-empty dttm_filter, poke returns True exactly when the count
\* get_count computed for allowed_states equals len(dttm_filter).
C1_TrueIffAllowedCountIsLen ==
    (last # NoPoke /\ P.dttm_filter # <<>>) =>
        (P.outcome = "True" <=>
            (P.count_allowed # NoCount
             /\ CountEquals(P.count_allowed, Len(P.dttm_filter))))

C1_Witness ==
    /\ last # NoPoke
    /\ P.outcome = "True"
    /\ P.after.external_task_ids = <<"A", "B">>
    /\ P.after.failed_states # <<>>
    /\ Len(P.dttm_filter) = 2

\* C2 as stated: whenever every target is in a failed state, poke raises the
\* dependency-failed error (read for the sequences that have a target at all).
C2_FailedTargetsAlwaysRaise ==
    (last # NoPoke /\ P.dttm_filter # <<>> /\ EveryRowIn(P.after.failed_states)) =>
        P.outcome \in DependencyFailedErrors

\* C2 amended: for a non-empty dttm_filter of distinct dates whose rows are all
\* in failed_states, a poke whose existence check does not raise raises the
\* dependency-failed error, whatever the allowed count is.
C2_FailedTargetsRaise ==
    (/\ last # NoPoke
     /\ P.dttm_filter # <<>>
     /\ Distinct(P.dttm_filter)
     /\ EveryRowIn(P.after.failed_states)
     /\ P.outcome \notin NotFoundErrors) =>
        P.outcome \in DependencyFailedErrors

C2_Witness ==
    /\ last # NoPoke
    /\ P.outcome = "tasks failed"
    /\ P.after.external_task_ids = <<"A", "B">>
    /\ P.dttm_filter = <<1>>
    /\ EveryRowIn(P.after.failed_states)
    /\ db.ti[<<"A", 2>>] = NoRow

\* C3 as stated: over any sequence of pokes, _check_for_existence is entered
\* at most once.
C3_CheckEnteredAtMostOnce == nChecks <= 1

\* C3 amended: _check_for_existence returns normally at most once, and once it
\* has, no later poke enters it; only a check that raised is entered again.
C3_CheckPassesAtMostOnce ==
    [][nPassed' <= 1 /\ (nPassed >= 1 => nChecks' = nChecks)]_vars

C3_Witness ==
    /\ nChecks = 2
    /\ nPassed = 1
    /\ last # NoPoke
    /\ P.checks = 0

\* C4: with check_existence set and no DagModel row, a poke that has not yet
\* verified existence raises "does not exist" and has issued no count query.
C4_NotFoundBeforeAnyCount ==
    (/\ last # NoPoke
     /\ P.before.check_existence
     /\ ~P.before.has_checked_existence
     /\ ~db.dag.registered) =>
        /\ P.outcome = "dag does not exist"
        /\ P.queries = <<>>
        /\ P.count_allowed = NoCount
        /\ P.count_failed = NoCount

C4_Witness ==
    /\ last # NoPoke
    /\ nChecks = 1
    /\ P.checks = 1
    /\ ~db.dag.registered
    /\ P.dttm_filter # <<>>
    /\ P.after.failed_states # <<>>
    /\ P.outcome = "dag does not exist"

\* C5: once a check has passed in an earlier poke, a poke neither enters
\* _check_for_existence nor raises a not-found error, whatever has become of
\* the DagModel row, the DAG file and its tasks.
C5_NoCheckAfterSuccess ==
    (last # NoPoke /\ nPassed - P.passed >= 1) =>
        /\ P.checks = 0
        /\ P.outcome \notin NotFoundErrors
        /\ P.after.has_checked_existence

C5_Witness ==
    /\ last # NoPoke
    /\ nPassed = 1
    /\ P.passed = 0
    /\ P.checks = 0
    /\ ~db.dag.registered
    /\ P.outcome = "True"

\* C6 as stated: a poke whose dttm_filter is empty returns False.
C6_EmptyTargetsPending ==
    (last # NoPoke /\ P.dttm_filter = <<>>) => P.outcome = "False"

\* C6 amended: a poke whose dttm_filter is empty never returns False: unless
\* the existence check raises, it returns True when failed_states is empty and
\* raises the dependency-failed error when failed_states is not empty.
C6_EmptyTargetsNeverPending ==
    (last # NoPoke /\ P.dttm_filter = <<>> /\ P.outcome \notin NotFoundErrors) =>
        IF P.after.failed_states = <<>>
          THEN P.outcome = "True"
          ELSE P.outcome \in DependencyFailedErrors

C6_Witness ==
    /\ last # NoPoke
    /\ P.dttm_filter = <<>>
    /\ P.outcome = "tasks failed"
    /\ \E k \in DOMAIN db.ti : db.ti[k] = SUCCESS

C8_PokeIdempotent ==
    (last # NoPoke /\ prev # NoPoke /\ prev[1].context = P.context) =>
        /\ P.outcome = prev[1].outcome
        /\ P.task = prev[1].task
        /\ P.after = prev[1].after

C8_Witness ==
    /\ last # NoPoke
    /\ prev # NoPoke
    /\ prev[1].checks = 1
    /\ P.checks = 0
    /\ prev[1].before # prev[1].after
    /\ P.outcome = "True"

\* The configuration of an instance: everything but the flag.
Config(self) == [self EXCEPT !.has_checked_existence = FALSE]

\* C9: a poke, however it ends, leaves every row of the database, the
\* DagModel row and file, and the configuration of the instance as they were;
\* it may only change _has_checked_existence.
C9_PokeFrame ==
    [][last' # NoPoke => (db' = db /\ Config(sensor'[1]) = Config(sensor[1]))]_vars

C9_Witness ==
    /\ last # NoPoke
    /\ P.before.has_checked_existence # P.after.has_checked_existence
    /\ P.outcome = "tasks failed"

\* The states __init__ works with: the argument, or the default when it is None or empty.
EffectiveAllowed(c) == IF TruthyList(c.allowed_states) THEN c.allowed_states ELSE <<SUCCESS>>
EffectiveFailed(c) == IF TruthyList(c.failed_states) THEN c.failed_states ELSE <<>>

\* C10: __init__ called with allowed and failed states that share a state
\* raises and leaves no instance; every instance has them disjoint.
C10_StatesDisjoint ==
    /\ (ctor # <<>> /\ Range(EffectiveAllowed(ctor[1])) \cap Range(EffectiveFailed(ctor[1])) # {})
          => (ctor[1].raised = "AirflowException: duplicate states" /\ sensor = NoSensor)
    /\ sensor # NoSensor =>
          Range(sensor[1].allowed_states) \cap Range(sensor[1].failed_states) = {}

C10_Witness ==
    /\ ctor # <<>>
    /\ ctor[1].allowed_states = <<SUCCESS, SKIPPED>>
    /\ ctor[1].failed_states = <<SUCCESS>>
    /\ ctor[1].raised = "AirflowException: duplicate states"
    /\ sensor = NoSensor

\* C11: an instance with execution_delta D, zero included, poked with logical
\* date T looks at exactly the one date T - D.
C11_DeltaTarget ==
    (last # NoPoke /\ P.before.execution_delta # NoDelta) =>
        P.dttm_filter = <<P.context.logical_date - P.before.execution_delta[1]>>

C11_Witness ==
    /\ last # NoPoke
    /\ P.before.execution_delta = <<1>>
    /\ P.context.logical_date = 2
    /\ P.dttm_filter = <<1>>
    /\ P.outcome = "True"

\* The configured task ids the check looks up: external_task_ids when it is not empty.
CheckedIds(c) == IF TruthyList(c.external_task_ids) THEN c.external_task_ids ELSE <<>>

\* C12: a poke that runs the existence check fails in a fixed order: no
\* DagModel row raises "does not exist"; else a missing file raises "was
\* deleted"; else the first configured task id, in configured order, that the
\* DAG does not define raises "task does not exist" naming it; only when none
\* applies does the check pass, and only then is _has_checked_existence set.
C12_ExistenceOrder ==
    (last # NoPoke /\ P.checks = 1) =>
        LET ids == CheckedIds(P.before)
            absent == {i \in DOMAIN ids : ids[i] \notin db.dag.task_ids}
        IN  /\ ~db.dag.registered => P.outcome = "dag does not exist"
            /\ (db.dag.registered /\ ~db.dag.fileloc_exists) => P.outcome = "dag was deleted"
            /\ (db.dag.registered /\ db.dag.fileloc_exists /\ absent # {}) =>
                  /\ P.outcome = "task does not exist"
                  /\ \E i \in absent : P.task = ids[i] /\ \A j \in absent : i <= j
            /\ (db.dag.registered /\ db.dag.fileloc_exists /\ absent = {}) =>
                  /\ P.outcome \notin NotFoundErrors
                  /\ P.passed = 1
            /\ P.after.has_checked_existence <=> P.passed = 1
            /\ P.after.has_checked_existence <=> P.outcome \notin NotFoundErrors

C12_Witness ==
    /\ last # NoPoke
    /\ P.checks = 1
    /\ P.before.external_task_ids = <<"A", "B">>
    /\ db.dag.registered
    /\ db.dag.fileloc_exists
    /\ db.dag.task_ids = {}
    /\ P.outcome = "task does not exist"
    /\ P.task = "A"

\* C13: a poke of an instance with no failed_states never raises the
\* dependency-failed error, whatever the rows and the dates, an empty
\* dttm_filter included, and issues no count query for failed states:
\* count_failed stays at -1.
C13_NoFailedStatesNoRaise ==
    (last # NoPoke /\ P.before.failed_states = <<>>) =>
        /\ P.outcome \notin DependencyFailedErrors
        /\ "failed_states" \notin Range(P.queries)
        /\ P.count_failed \in {NoCount, CountFailedUnset}

C13_Witness ==
    /\ last # NoPoke
    /\ P.before.failed_states = <<>>
    /\ P.dttm_filter # <<>>
    /\ EveryRowIn(<<FAILED>>)
    /\ P.queries = <<"allowed_states">>
    /\ P.outcome = "False"

\* _has_checked_existence of the instance s, if there is one.
Verified(s) == s # NoSensor /\ s[1].has_checked_existence

\* Every test of _check_for_existence passes for the instance s on the registry dag.
ReferentExists(s, dag) ==
    /\ dag.registered
    /\ dag.fileloc_exists
    /\ \A i \in DOMAIN CheckedIds(s) : CheckedIds(s)[i] \in dag.task_ids

\* C14: _has_checked_existence is a one-way latch.  It is False when __init__
\* returns; it turns True only in a poke of an instance with check_existence
\* set whose check passed every test; once True it stays True; and without
\* check_existence it is False for ever.
C14_ExistenceLatch ==
    [][/\ (sensor = NoSensor /\ sensor' # NoSensor) => ~Verified(sensor')
       /\ Verified(sensor) => Verified(sensor')
       /\ (~Verified(sensor) /\ Verified(sensor')) =>
             /\ sensor # NoSensor
             /\ sensor[1].check_existence
             /\ last' # NoPoke
             /\ last'[1].checks = 1
             /\ last'[1].passed = 1
             /\ ReferentExists(sensor[1], db.dag)
       /\ (sensor' # NoSensor /\ ~sensor'[1].check_existence) => ~Verified(sensor')]_vars

C14_Witness ==
    /\ Verified(sensor)
    /\ ~ReferentExists(sensor[1], db.dag)
    /\ last # NoPoke
    /\ P.checks = 0
    /\ nPassed = 1

\* C15: a poke whose existence check raises leaves _has_checked_existence
\* False, so the next poke runs the check again: after checks that all raised,
\* every poke runs the check, and it passes if the DAG, its file and the tasks
\* are there by then.
C15_RaisedCheckIsRetried ==
    /\ (last # NoPoke /\ P.outcome \in NotFoundErrors) =>
          (P.checks = 1 /\ ~P.after.has_checked_existence /\ ~Verified(sensor))
    /\ (last # NoPoke /\ nChecks - P.checks >= 1 /\ nPassed - P.passed = 0) =>
          /\ P.checks = 1
          /\ ReferentExists(P.before, db.dag) =>
                /\ P.passed = 1
                /\ P.outcome \notin NotFoundErrors
                /\ P.after.has_checked_existence

C15_Witness ==
    /\ last # NoPoke
    /\ nChecks = 2
    /\ nPassed = 1
    /\ P.checks = 1
    /\ P.passed = 1
    /\ P.outcome = "True"

SomeRowIn(states) ==
    \E t \in Watched, d \in Targets : RowState(t, d) \in Range(states)

\* Some, but not all, of the rows the poke asked for are in one of failed_states.
PartlyFailed == SomeRowIn(P.after.failed_states) /\ ~EveryRowIn(P.after.failed_states)

\* C16 as stated: a poke in which some but not all of the requested rows are
\* in a failed state returns False, and the dependency-failed error is raised
\* only when every requested row is in a failed state.
C16_PartialFailureReturnsFalse ==
    last # NoPoke =>
        /\ PartlyFailed => P.outcome = "False"
        /\ P.outcome \in DependencyFailedErrors => EveryRowIn(P.after.failed_states)

\* C16: a poke whose existence check does not raise, and in which some but not
\* all of the requested rows are in a failed state, returns False; the
\* dependency-failed error is raised only when every requested row is in a
\* failed state.
C16_PartialFailurePending ==
    last # NoPoke =>
        /\ (PartlyFailed /\ P.outcome \notin NotFoundErrors) => P.outcome = "False"
        /\ P.outcome \in DependencyFailedErrors => EveryRowIn(P.after.failed_states)

C16_Witness ==
    /\ last # NoPoke
    /\ P.after.external_task_ids = <<"A", "B">>
    /\ P.dttm_filter = <<1, 2>>
    /\ PartlyFailed
    /\ P.count_failed = <<3, 2>>
    /\ P.outcome = "False"

\* C17: a poke whose dttm_filter holds the same date more than once neither
\* returns True nor raises the dependency-failed error, whatever the rows.
C17_RepeatedTargetNeverDone ==
    (last # NoPoke /\ ~Distinct(P.dttm_filter)) =>
        P.outcome \notin ({"True"} \cup DependencyFailedErrors)

C17_Witness ==
    /\ last # NoPoke
    /\ P.dttm_filter = <<2, 2>>
    /\ EveryRowIn(P.after.allowed_states)
    /\ P.count_allowed = <<1, 1>>
    /\ P.outcome = "False"

\* The call of poke that ran next to the writers and has returned or raised.
Returned == call # NoCall /\ call[1].pc = "done"

\* What poke makes of the database d when nothing is written during the call.
OutcomeOn(d) == Poke(call[1].self, call[1].context, d).outcome

\* C18: when rows are written between the count query for allowed_states and
\* the one for failed_states, what the call returns or raises is what poke
\* makes of at least one state the database was in during the call.
C18_OutcomeOfSomeStoreState ==
    Returned => \E d \in call[1].seen : OutcomeOn(d) = call[1].outcome

\* A call with no write inside it ends as poke on that one database does.
UndisturbedCallIsPoke ==
    (Returned /\ call[1].writes = 0) => OutcomeOn(db) = call[1].outcome

\* The dates an instance looks at when poked with logical_date.
TargetsFor(self, logical_date) ==
    DttmFilter(ResolveDttm(self, [logical_date |-> logical_date]))

\* Every row a poke with logical_date asks for is in allowed_states, the dates
\* are distinct and not empty, and an existence check, if one is due, passes.
Satisfiable(logical_date) ==
    /\ sensor # NoSensor
    /\ LET self == sensor[1]
           dates == TargetsFor(self, logical_date)
       IN  /\ dates # <<>>
           /\ Distinct(dates)
           /\ \A i \in DOMAIN dates :
                 /\ dates[i] \in Dates
                 /\ IF TableRead(self) = "ti"
                      THEN \A t \in Range(self.external_task_ids) :
                              db.ti[<<t, dates[i]>>] \in Range(self.allowed_states)
                      ELSE db.dr[dates[i]] \in Range(self.allowed_states)
           /\ NeedsExistenceCheck(self) => ReferentExists(self, db.dag)

ReturnedTrue(logical_date) ==
    /\ last # NoPoke
    /\ P.context.logical_date = logical_date
    /\ P.outcome = "True"

\* C19: for the context of the task instance, if from some point on the dates
\* are distinct and not empty, every requested row is and stays in an allowed
\* state and the existence check passes, then, the host poking again and
\* again, a poke returns True.
C19_EventuallyTrue ==
    (<>[]Satisfiable(LiveLogicalDate)) => <>ReturnedTrue(LiveLogicalDate)

C19_Witness ==
    /\ Satisfiable(LiveLogicalDate)
    /\ ReturnedTrue(LiveLogicalDate)
    /\ P.dttm_filter = <<1, 2>>
    /\ P.after.external_task_ids = <<"A", "B">>
    /\ P.count_allowed = <<4, 2>>

====
